---- MODULE Spec2Model ----
(***************************************************************************)
(* Model of app.py: the Cognito PostConfirmation webhook.                  *)
(*                                                                         *)
(* The state is the users table of the PostgreSQL backend, the open        *)
(* connections, and, for each request the server is handling, the         *)
(* position of its handler and the locals it carries from one database     *)
(* call to the next.  Every database call (connect, cursor, execute,       *)
(* commit, close, rollback) may succeed or raise.                          *)
(***************************************************************************)
EXTENDS Integers, Sequences, FiniteSets, TLC

\* Number of requests the server handles at the same time.
NumWorkers == 2
\* Number of requests received in one behaviour.
MaxRequests == 2

Workers == 1..NumWorkers

VARIABLES
    users,      \* the rows of USERS_TABLE that are committed
    openConns,  \* psycopg2 connections opened and not closed
    nextId,     \* uuid.uuid4(): every call returns a value never seen before
    clock,      \* datetime.utcnow() as read by create_user_in_database
    started,    \* requests received so far
    pc,         \* per worker: position of the handler it runs
    req,        \* per worker: the request it handles
    args,       \* per worker: arguments of create_user_in_database
    txn,        \* per worker: row written by execute() and not yet committed
    succeeded,  \* identities for which create_user_in_database has returned
    last        \* the exchange completed last: request, response and what
                \* the handler did with the database

vars == <<users, openConns, nextId, clock, started, pc, req, args, txn,
          succeeded, last>>

-----------------------------------------------------------------------------
(* Configuration (environment defaults) *)

DEFAULT_PROVIDER == "google"
TRIGGER_SOURCE == "PostConfirmation_ConfirmSignUp"

-----------------------------------------------------------------------------
(* Request bodies.  A body is bytes that are no UTF-8 text, text that is   *)
(* no JSON, or a JSON value: an array, null, a string or an object (a      *)
(* function from its keys).                                                *)

NotJson == [t |-> "bytes"]
NotUtf8 == [t |-> "binary"]
JArr == [t |-> "arr"]
JNull == [t |-> "null"]
JStr(s) == [t |-> "str", s |-> s]
JObj(f) == [t |-> "obj", o |-> f]
EmptyDict == JObj(<<>>)

\* Marks a key left out of a generated object; never part of a body.
Absent == [t |-> "absent"]
Field(k, v) == IF v = Absent THEN <<>> ELSE (k :> v)

\* dict.get is an attribute of dicts only
HasGet(v) == v.t = "obj"
\* d.get(k, default)
Get(d, k, default) == IF k \in DOMAIN d.o THEN d.o[k] ELSE default
\* Python truth value, as tested by "not x"
Truthy(v) ==
    CASE v.t = "str" -> v.s # ""
      [] v.t = "obj" -> DOMAIN v.o # {}
      [] OTHER -> FALSE

-----------------------------------------------------------------------------
(* Exceptions and their str() *)

NoExc == [type |-> "none", status |-> 0, detail |-> <<>>]
HTTPException(status, detail) ==
    [type |-> "HTTPException", status |-> status, detail |-> detail]
PyError(type, msg) == [type |-> type, status |-> 0, detail |-> <<msg>>]
\* An exception raised by psycopg2 in the database call `step`.
DbError(step) == PyError("psycopg2.Error", step)

StatusText(n) == CASE n = 400 -> "400" [] n = 500 -> "500" [] OTHER -> "0"
\* str(e): starlette's HTTPException prints "<status>: <detail>"
Str(e) ==
    IF e.type = "HTTPException"
    THEN <<StatusText(e.status), ": ">> \o e.detail
    ELSE e.detail

\* The response FastAPI builds from an HTTPException that leaves a handler.
ErrorResponse(e) == [status |-> e.status, kind |-> "error", detail |-> e.detail]
\* The response FastAPI builds from a returned body.
JsonResponse(kind, body) == [status |-> 200, kind |-> kind, body |-> body]

-----------------------------------------------------------------------------
(* The events POSTed to /cognito-webhook *)

Accepted == JStr(TRIGGER_SOURCE)
Other == JStr("PreSignUp_SignUp")
FullBag ==
    JObj(("email" :> JStr("a@b.com")) @@ ("name" :> JStr("A"))
           @@ ("picture" :> JStr("http://x/p.jpg")))
AttributeBags ==
    { JObj(<<>>),
      JObj("name" :> JStr("A")),
      JObj(("email" :> JStr("")) @@ ("name" :> JStr("A"))),
      FullBag,
      JObj("email" :> JStr("c@d.com")) }
Attrs(bag) == JObj("userAttributes" :> bag)
Requests ==
    {Absent, JNull, JStr("bad"), JObj(<<>>), Attrs(JStr("bad"))}
      \cup {Attrs(b) : b \in AttributeBags}
EventObject(ts, un, rq) ==
    JObj(Field("triggerSource", ts) @@ Field("userName", un) @@ Field("request", rq))
Bodies ==
    {NotUtf8, NotJson, JArr}
      \cup {EventObject(Accepted, JStr("u1"), rq) : rq \in Requests}
      \cup {EventObject(Accepted, un, Attrs(b)) :
              un \in {Absent, JStr("")}, b \in {JObj(<<>>), FullBag}}
      \cup {EventObject(ts, JStr("u1"), rq) :
              ts \in {Absent, Other},
              rq \in {JStr("bad"), Attrs(JStr("bad")), Attrs(FullBag),
                      Attrs(JObj("email" :> JStr("")))}}
      \cup {EventObject(ts, un, rq) :
              ts \in {Absent, Other}, un \in {Absent, JStr("")}, rq \in {Absent, JNull}}

-----------------------------------------------------------------------------
(* cognito_post_confirmation, up to the call of create_user_in_database *)

CallArgs(cid, email, name, picture) ==
    [cognito_user_id |-> cid, email |-> email, name |-> name, picture_url |-> picture]
NoArgs == CallArgs(JNull, JNull, JNull, JNull)

Raise(e) == [kind |-> "raise", e |-> e]
AttributeError == PyError("AttributeError", "object has no attribute 'get'")

\* Extract without the test of line 176.
ExtractUnchecked(event) ==
    LET request == Get(event, "request", EmptyDict)
    IN  IF ~HasGet(request) THEN Raise(AttributeError)
        ELSE LET user_attributes == Get(request, "userAttributes", EmptyDict)
             IN  IF ~HasGet(user_attributes) THEN Raise(AttributeError)
                 ELSE [kind |-> "call",
                       args |-> CallArgs(Get(event, "userName", JStr("")),
                                         Get(user_attributes, "email", JStr("")),
                                         Get(user_attributes, "name", JStr("")),
                                         Get(user_attributes, "picture", JStr("")))]

\* Lines 170-180, for an event whose triggerSource is the accepted one.
Extract(event) ==
    LET cognito_user_id == Get(event, "userName", JStr(""))
        request == Get(event, "request", EmptyDict)
    IN  IF ~HasGet(request) THEN Raise(AttributeError)
        ELSE LET user_attributes == Get(request, "userAttributes", EmptyDict)
             IN  IF ~HasGet(user_attributes) THEN Raise(AttributeError)
                 ELSE LET email == Get(user_attributes, "email", JStr(""))
                          name == Get(user_attributes, "name", JStr(""))
                          picture_url == Get(user_attributes, "picture", JStr(""))
                      IN  IF ~Truthy(email) \/ ~Truthy(cognito_user_id)
                          THEN Raise(HTTPException(400, <<"Missing required user data">>))
                          ELSE [kind |-> "call",
                                args |-> CallArgs(cognito_user_id, email, name, picture_url)]

\* Interpret with the fields extracted and tested before the trigger type.
InterpretFieldsFirst(body) ==
    IF body = NotUtf8 THEN Raise(PyError("UnicodeDecodeError", "invalid start byte"))
    ELSE IF body = NotJson THEN Raise(PyError("JSONDecodeError", "Expecting value"))
    ELSE IF ~HasGet(body) THEN Raise(AttributeError)
    ELSE IF Extract(body).kind = "raise" THEN Extract(body)
    ELSE IF Get(body, "triggerSource", JNull) # JStr(TRIGGER_SOURCE)
         THEN [kind |-> "ignored"]
    ELSE Extract(body)

\* Lines 158-180: what the handler does with a body before it reaches storage.
Interpret(body) ==
    IF body = NotUtf8 THEN Raise(PyError("UnicodeDecodeError", "invalid start byte"))
    ELSE IF body = NotJson THEN Raise(PyError("JSONDecodeError", "Expecting value"))
    ELSE IF ~HasGet(body) THEN Raise(AttributeError)
    ELSE IF Get(body, "triggerSource", JNull) # JStr(TRIGGER_SOURCE)
         THEN [kind |-> "ignored"]
    ELSE Extract(body)

\* Lines 193-199: the two except clauses of the handler.
WebhookExcept(e) ==
    IF e.type = "JSONDecodeError"
    THEN HTTPException(400, <<"Invalid JSON">>)
    ELSE HTTPException(500, <<"Internal server error: ">> \o Str(e))

\* Lines 184-191
WebhookSuccess(user_id, email) ==
    JsonResponse("created",
        [statusCode |-> 200,
         body |-> [message |-> "User created successfully",
                   user_id |-> user_id, email |-> email]])

\* Line 166
WebhookIgnored ==
    JsonResponse("ignored", [statusCode |-> 200, body |-> "Event ignored"])

-----------------------------------------------------------------------------
(* test_webhook *)

TestArgs ==
    CallArgs(JStr("test-user-123"), JStr("test@example.com"), JStr("Test User"),
             JStr("https://example.com/pic.jpg"))
TestSuccess(user_id) ==
    JsonResponse("test",
        [message |-> "Test webhook executed successfully", user_id |-> user_id,
         test_data |-> TestArgs])
TestExcept(e) == HTTPException(500, <<"Test failed: ">> \o Str(e))

-----------------------------------------------------------------------------
(* The users table and the upsert statement *)

NoRow == [none |-> TRUE]

\* The parameter tuple of cursor.execute, lines 90-102.
NewRow(user_id, a, now) ==
    [id |-> user_id, cognito_user_id |-> a.cognito_user_id, email |-> a.email,
     name |-> a.name, picture_url |-> a.picture_url, provider |-> DEFAULT_PROVIDER,
     created_at |-> now, updated_at |-> now, is_active |-> TRUE,
     onboarding_completed |-> FALSE, preferences |-> "{}"]

\* A row written earlier and since edited by the application that owns the table.
SeedRow ==
    [id |-> 0, cognito_user_id |-> JStr("u1"), email |-> JStr("old@b.com"),
     name |-> JStr("Old"), picture_url |-> JStr(""), provider |-> "github",
     created_at |-> 0, updated_at |-> 0, is_active |-> FALSE,
     onboarding_completed |-> TRUE, preferences |-> "{theme}"]

Conflicts(table, row) == {r \in table : r.cognito_user_id = row.cognito_user_id}

\* The statement without its ON CONFLICT clause, on a table without the
\* unique index.
UpsertAlwaysInserts(table, row) == table \cup {row}

\* The statement with created_at added to the DO UPDATE SET list.
UpsertTouchesCreatedAt(table, row) ==
    IF Conflicts(table, row) = {}
    THEN table \cup {row}
    ELSE { IF r.cognito_user_id = row.cognito_user_id
           THEN [r EXCEPT !.email = row.email, !.name = row.name,
                          !.picture_url = row.picture_url,
                          !.created_at = row.created_at,
                          !.updated_at = row.updated_at]
           ELSE r : r \in table }

\* INSERT ... ON CONFLICT (cognito_user_id) DO UPDATE SET ..., lines 77-85.
Upsert(table, row) ==
    IF Conflicts(table, row) = {}
    THEN table \cup {row}
    ELSE { IF r.cognito_user_id = row.cognito_user_id
           THEN [r EXCEPT !.email = row.email, !.name = row.name,
                          !.picture_url = row.picture_url,
                          !.updated_at = row.updated_at]
           ELSE r : r \in table }

\* The statement waits while another transaction holds an uncommitted write of
\* the same cognito_user_id (the unique index serialises them).
RowFree(p, row) ==
    \A q \in Workers \ {p} :
        IF txn[q] = NoRow THEN TRUE
        ELSE txn[q].cognito_user_id # row.cognito_user_id

\* Line 109: the value create_user_in_database returns.
ReturnedId(row) == row.id

-----------------------------------------------------------------------------
(* get_db_connection and the except clause of create_user_in_database *)

\* Lines 61-68
get_db_connection(connects) ==
    IF connects THEN [conn |-> TRUE, raised |-> NoExc]
    ELSE [conn |-> FALSE,
          raised |-> HTTPException(500, <<"Database connection failed">>)]

UnboundLocalError ==
    PyError("UnboundLocalError", "local variable 'conn' referenced before assignment")

\* Lines 111-116: every way the except clause can end, for the exception e it
\* caught.  closed tells whether conn.close() returned.
CreateExcept(connBound, e) ==
    IF ~connBound
    THEN {[raised |-> UnboundLocalError, closed |-> FALSE]}
    ELSE {[raised |-> DbError("rollback"), closed |-> FALSE],
          [raised |-> DbError("conn.close"), closed |-> FALSE],
          [raised |-> HTTPException(500, <<"Error creating user: ">> \o Str(e)),
           closed |-> TRUE]}

-----------------------------------------------------------------------------
(* health_check *)

\* Lines 139-143
HealthOk(now) ==
    JsonResponse("health",
        [status |-> "healthy", database |-> "connected", timestamp |-> now])
\* An except clause that re-raises as the other endpoints do.
HealthExceptRaises(e, now) ==
    ErrorResponse(HTTPException(500, <<"Health check failed: ">> \o Str(e)))

\* Lines 144-151
HealthExcept(e, now) ==
    JsonResponse("health",
        [status |-> "unhealthy", database |-> "disconnected", error |-> Str(e),
         timestamp |-> now])

\* Lines 121-125
RootBody(now) ==
    JsonResponse("root",
        [message |-> "Cognito K3s Webhook is running", status |-> "healthy",
         timestamp |-> now])

-----------------------------------------------------------------------------
(* Initial state: the service has started and no request has arrived.  The *)
(* table is empty or holds a row from before.                              *)

NoReq == [endpoint |-> "none", body |-> JNull]
NoResp == [status |-> 0, kind |-> "none"]

\* n: the number of the exchange.  fault: the first database call of the
\* request that raised.  committed: conn.commit() returned.  attempts: calls
\* of get_db_connection.
Exchange(n, r, a, response, fault, committed, attempts) ==
    [n |-> n, endpoint |-> r.endpoint, body |-> r.body, args |-> a,
     resp |-> response, fault |-> fault, committed |-> committed,
     attempts |-> attempts]

Init ==
    /\ users \in {{}, {SeedRow}}
    /\ openConns = 0
    /\ nextId = 1
    /\ clock = 1
    /\ started = 0
    /\ pc = [p \in Workers |-> "idle"]
    /\ req = [p \in Workers |-> NoReq]
    /\ args = [p \in Workers |-> NoArgs]
    /\ txn = [p \in Workers |-> NoRow]
    /\ succeeded = {}
    /\ last = Exchange(0, NoReq, NoArgs, NoResp, "none", FALSE, 0)

\* The handler of worker p, serving request r, ends by sending `response`.
Reply(p, r, a, response, fault, committed, attempts) ==
    /\ last' = Exchange(last.n + 1, r, a, response, fault, committed, attempts)
    /\ pc' = [pc EXCEPT ![p] = "idle"]
    /\ req' = [req EXCEPT ![p] = NoReq]
    /\ args' = [args EXCEPT ![p] = NoArgs]

\* create_user_in_database raised e: the except clause of the endpoint that
\* called it (lines 197-199, 233-235).
RaisedResponse(endpoint, e) ==
    ErrorResponse(IF endpoint = "webhook" THEN WebhookExcept(e) ELSE TestExcept(e))

\* create_user_in_database returned user_id (lines 182-191, 228-232).
ReturnedResponse(endpoint, user_id, email) ==
    IF endpoint = "webhook" THEN WebhookSuccess(user_id, email)
    ELSE TestSuccess(user_id)

-----------------------------------------------------------------------------
(* Requests arrive *)

Accept(p) ==
    /\ pc[p] = "idle"
    /\ started < MaxRequests
    /\ started' = started + 1

\* GET /, lines 118-125
Root(p) ==
    /\ Accept(p)
    /\ Reply(p, [endpoint |-> "root", body |-> JNull], NoArgs, RootBody(clock),
             "none", FALSE, 0)
    /\ UNCHANGED <<users, openConns, nextId, clock, txn, succeeded>>

\* POST /cognito-webhook, lines 153-180 and 193-199
ReceiveWebhook(p) ==
    \E body \in Bodies :
        LET r == [endpoint |-> "webhook", body |-> body]
            out == Interpret(body)
        IN  /\ Accept(p)
            /\ CASE out.kind = "call" ->
                      /\ req' = [req EXCEPT ![p] = r]
                      /\ args' = [args EXCEPT ![p] = out.args]
                      /\ pc' = [pc EXCEPT ![p] = "connect"]
                      /\ UNCHANGED last
                 [] out.kind = "ignored" ->
                      Reply(p, r, NoArgs, WebhookIgnored, "none", FALSE, 0)
                 [] out.kind = "raise" ->
                      Reply(p, r, NoArgs, ErrorResponse(WebhookExcept(out.e)),
                            "none", FALSE, 0)
            /\ UNCHANGED <<users, openConns, nextId, clock, txn, succeeded>>

\* POST /test-webhook, lines 201-226
ReceiveTest(p) ==
    /\ Accept(p)
    /\ req' = [req EXCEPT ![p] = [endpoint |-> "test", body |-> JNull]]
    /\ args' = [args EXCEPT ![p] = TestArgs]
    /\ pc' = [pc EXCEPT ![p] = "connect"]
    /\ UNCHANGED <<users, openConns, nextId, clock, txn, succeeded, last>>

\* GET /health, lines 127-130
ReceiveHealth(p) ==
    /\ Accept(p)
    /\ req' = [req EXCEPT ![p] = [endpoint |-> "health", body |-> JNull]]
    /\ pc' = [pc EXCEPT ![p] = "h_connect"]
    /\ UNCHANGED <<users, openConns, nextId, clock, args, txn, succeeded, last>>

-----------------------------------------------------------------------------
(* create_user_in_database *)

\* The try block raised e in database call `step`, with conn bound or not;
\* the except clause runs (lines 111-116) and the caller replies.  `opened`
\* counts the connection this step opened, `done` tells whether commit
\* had returned.
CreateFails(p, step, connBound, e, opened, done) ==
    \E h \in CreateExcept(connBound, e) :
        /\ openConns' = openConns + opened - (IF h.closed THEN 1 ELSE 0)
        /\ Reply(p, req[p], args[p], RaisedResponse(req[p].endpoint, h.raised),
                 step, done, 1)

\* Lines 72-74: conn = get_db_connection(); cursor = conn.cursor()
CreateConnect(p) ==
    /\ pc[p] = "connect"
    /\ \E connects \in BOOLEAN :
         LET got == get_db_connection(connects)
         IN  IF ~got.conn
             THEN CreateFails(p, "connect", FALSE, got.raised, 0, FALSE)
             ELSE \/ CreateFails(p, "cursor", TRUE, DbError("cursor"), 1, FALSE)
                  \/ /\ openConns' = openConns + 1
                     /\ pc' = [pc EXCEPT ![p] = "execute"]
                     /\ UNCHANGED <<req, args, last>>
    /\ UNCHANGED <<users, nextId, clock, started, txn, succeeded>>

\* Lines 87-102: user_id, now, cursor.execute(insert_query, ...)
CreateExecute(p) ==
    /\ pc[p] = "execute"
    /\ nextId' = nextId + 1
    /\ clock' = clock + 1
    /\ LET row == NewRow(nextId, args[p], clock)
       IN  \/ /\ RowFree(p, row)
              /\ txn' = [txn EXCEPT ![p] = row]
              /\ pc' = [pc EXCEPT ![p] = "commit"]
              /\ UNCHANGED <<openConns, req, args, last>>
           \/ /\ CreateFails(p, "execute", TRUE, DbError("execute"), 0, FALSE)
              /\ UNCHANGED txn
    /\ UNCHANGED <<users, started, succeeded>>

\* Lines 104-109: conn.commit(); cursor.close(); conn.close(); return user_id
CreateCommit(p) ==
    /\ pc[p] = "commit"
    /\ txn' = [txn EXCEPT ![p] = NoRow]
    /\ \/ /\ CreateFails(p, "commit", TRUE, DbError("commit"), 0, FALSE)
          /\ UNCHANGED <<users, succeeded>>
       \/ /\ users' = Upsert(users, txn[p])
          /\ \/ /\ \E step \in {"cursor.close", "conn.close"} :
                     CreateFails(p, step, TRUE, DbError(step), 0, TRUE)
                /\ UNCHANGED succeeded
             \/ /\ openConns' = openConns - 1
                /\ succeeded' = succeeded \cup {args[p].cognito_user_id}
                /\ Reply(p, req[p], args[p],
                         ReturnedResponse(req[p].endpoint, ReturnedId(txn[p]),
                                          args[p].email),
                         "none", TRUE, 1)
    /\ UNCHANGED <<nextId, clock, started>>

-----------------------------------------------------------------------------
(* health_check *)

\* The try block raised e in database call `step`: lines 144-151.  The except
\* clause closes nothing.
HealthFails(p, step, e) ==
    Reply(p, req[p], NoArgs, HealthExcept(e, clock), step, FALSE, 1)

\* Lines 132-133: conn = get_db_connection(); cursor = conn.cursor()
HealthConnect(p) ==
    /\ pc[p] = "h_connect"
    /\ \E connects \in BOOLEAN :
         LET got == get_db_connection(connects)
         IN  IF ~got.conn
             THEN /\ HealthFails(p, "connect", got.raised)
                  /\ UNCHANGED openConns
             ELSE /\ openConns' = openConns + 1
                  /\ \/ HealthFails(p, "cursor", DbError("cursor"))
                     \/ /\ pc' = [pc EXCEPT ![p] = "h_probe"]
                        /\ UNCHANGED <<req, args, last>>
    /\ UNCHANGED <<users, nextId, clock, started, txn, succeeded>>

\* Lines 134-143: execute("SELECT 1"), fetchone, cursor.close, conn.close
HealthProbe(p) ==
    /\ pc[p] = "h_probe"
    /\ \/ /\ \E step \in {"execute", "fetchone", "cursor.close", "conn.close"} :
               HealthFails(p, step, DbError(step))
          /\ UNCHANGED openConns
       \/ /\ openConns' = openConns - 1
          /\ Reply(p, req[p], NoArgs, HealthOk(clock), "none", FALSE, 1)
    /\ UNCHANGED <<users, nextId, clock, started, txn, succeeded>>

Next ==
    \E p \in Workers :
        \/ Root(p)
        \/ ReceiveWebhook(p)
        \/ ReceiveTest(p)
        \/ ReceiveHealth(p)
        \/ CreateConnect(p)
        \/ CreateExecute(p)
        \/ CreateCommit(p)
        \/ HealthConnect(p)
        \/ HealthProbe(p)

Spec == Init /\ [][Next]_vars

-----------------------------------------------------------------------------
(* Properties *)

Range(f) == {f[i] : i \in DOMAIN f}
RowsOf(table, cid) == {r \in table : r.cognito_user_id = cid}
Reconciles(endpoint) == endpoint \in {"webhook", "test"}

\* The attribute bag of an event, when request and userAttributes are absent
\* or objects, and JNull when one of them has another shape.
BagOf(event) ==
    LET request == Get(event, "request", EmptyDict)
    IN  IF request.t # "obj" THEN JNull
        ELSE LET bag == Get(request, "userAttributes", EmptyDict)
             IN  IF bag.t # "obj" THEN JNull ELSE bag
IsEvent(body) == body.t = "obj"
HasAcceptedTrigger(body) ==
    IsEvent(body) /\ Get(body, "triggerSource", JNull) = JStr(TRIGGER_SOURCE)
Empty(v) == v.t # "str" \/ v.s = ""
\* An accepted event that lacks email or userName.
LacksRequired(body) ==
    /\ HasAcceptedTrigger(body)
    /\ BagOf(body) # JNull
    /\ \/ Empty(Get(BagOf(body), "email", JStr("")))
       \/ Empty(Get(body, "userName", JStr("")))
\* An accepted event with both email and userName.
Complete(body) ==
    /\ HasAcceptedTrigger(body)
    /\ BagOf(body) # JNull
    /\ ~Empty(Get(BagOf(body), "email", JStr("")))
    /\ ~Empty(Get(body, "userName", JStr("")))

\* C1: the users table never holds two rows with the same cognito_user_id,
\* and holds a row for every identity whose reconciliation has returned,
\* whatever the interleaving of the requests.
OneRowPerIdentity ==
    /\ \A r1, r2 \in users : r1.cognito_user_id = r2.cognito_user_id => r1 = r2
    /\ \A cid \in succeeded : Cardinality(RowsOf(users, cid)) = 1

\* Two requests reconcile, at the same time, an identity that has a row: one
\* holds its uncommitted write, the other is about to execute its statement.
SameIdentityConcurrently ==
    \E p, q \in Workers :
        /\ pc[p] = "commit" /\ pc[q] = "execute"
        /\ args[p].cognito_user_id = args[q].cognito_user_id
        /\ Cardinality(RowsOf(users, args[p].cognito_user_id)) = 1

\* C2: the user_id in a successful /cognito-webhook response is the id of the
\* row stored for that identity.
ReturnsStoredId ==
    (last.endpoint = "webhook" /\ last.resp.kind = "created")
        => \E r \in RowsOf(users, last.args.cognito_user_id) :
               r.id = last.resp.body.body.user_id

\* C3: when create_user_in_database returns for an identity that has a row,
\* the row keeps id, cognito_user_id, provider, created_at, is_active,
\* onboarding_completed and preferences, takes email, name, picture_url and
\* updated_at from the call, and no other row changes.
ReturnsFrom(p) ==
    pc[p] = "commit" /\ pc'[p] = "idle" /\ last'.resp.status = 200
UpdateChangesFourColumns ==
    [][\A p \in Workers : \A old \in users :
          (ReturnsFrom(p) /\ old.cognito_user_id = args[p].cognito_user_id)
            => users' = (users \ {old}) \cup
                 {[id |-> old.id,
                   cognito_user_id |-> old.cognito_user_id,
                   email |-> args[p].email,
                   name |-> args[p].name,
                   picture_url |-> args[p].picture_url,
                   provider |-> old.provider,
                   created_at |-> old.created_at,
                   updated_at |-> txn[p].updated_at,
                   is_active |-> old.is_active,
                   onboarding_completed |-> old.onboarding_completed,
                   preferences |-> old.preferences]}]_vars

\* The row from before the service started has been reconciled: its mutable
\* columns are the call's, the others are as they were.
SeedRowUpdated ==
    /\ last.committed /\ last.resp.status = 200
    /\ \E r \in users :
         /\ r.id = SeedRow.id /\ r.cognito_user_id = last.args.cognito_user_id
         /\ r.email = last.args.email /\ r.updated_at > r.created_at
         /\ r.provider = SeedRow.provider

\* C4: an accepted event that lacks email or userName is answered 400
\* "Missing required user data".
MissingFieldsAnswered400 ==
    (last.endpoint = "webhook" /\ LacksRequired(last.body))
        => /\ last.resp.status = 400
           /\ last.resp.detail = <<"Missing required user data">>

\* C5: an event whose triggerSource is not the accepted one is answered 200
\* "Event ignored", whatever else it holds.
TriggerCheckedFirst ==
    (last.endpoint = "webhook" /\ IsEvent(last.body)
       /\ ~HasAcceptedTrigger(last.body))
        => /\ last.resp.status = 200
           /\ last.resp.kind = "ignored"
           /\ last.resp.body = [statusCode |-> 200, body |-> "Event ignored"]

\* An event of another trigger type whose request has the wrong shape was
\* ignored.
IgnoredMalformedEvent ==
    /\ last.endpoint = "webhook" /\ IsEvent(last.body)
    /\ ~HasAcceptedTrigger(last.body)
    /\ BagOf(last.body) = JNull
    /\ last.resp.kind = "ignored"

\* C6: a webhook request that is malformed, ignored or lacks a required field
\* ends without a call of get_db_connection and leaves the table and the
\* connections as they were; a webhook request inside
\* create_user_in_database is an accepted event with email and userName.
StorageUntouchedByRejected ==
    [][/\ (last'.n # last.n /\ last'.endpoint = "webhook"
             /\ ~Complete(last'.body))
            => (last'.attempts = 0 /\ users' = users /\ openConns' = openConns)
       /\ \A p \in Workers :
            (pc'[p] # "idle" /\ req'[p].endpoint = "webhook")
              => Complete(req'[p].body)]_vars

\* An accepted event without email was answered without a storage call.
RejectedWithoutStorage ==
    /\ last.endpoint = "webhook" /\ LacksRequired(last.body)
    /\ last.resp.kind = "error" /\ last.attempts = 0

\* C7: /health always answers 200: healthy and connected when no database
\* call raised, unhealthy and disconnected with the error text otherwise.
CauseText(step) == IF step = "connect" THEN "Database connection failed" ELSE step
HealthNeverFails ==
    last.endpoint = "health"
        => /\ last.resp.status = 200
           /\ last.resp.kind = "health"
           /\ IF last.fault = "none"
              THEN /\ last.resp.body.status = "healthy"
                   /\ last.resp.body.database = "connected"
              ELSE /\ last.resp.body.status = "unhealthy"
                   /\ last.resp.body.database = "disconnected"
                   /\ CauseText(last.fault) \in Range(last.resp.body.error)

\* A probe that connected and then failed was reported as unhealthy.
UnhealthyReported ==
    /\ last.endpoint = "health" /\ last.fault = "execute"
    /\ last.resp.status = 200 /\ last.resp.body.status = "unhealthy"

\* C8: a database failure during reconciliation makes /cognito-webhook answer
\* 500 with create_user_in_database's storage error and the cause in the detail.
StorageErrorSurfaces ==
    (last.endpoint = "webhook" /\ last.fault # "none")
        => /\ last.resp.status = 500
           /\ "Error creating user: " \in Range(last.resp.detail)
           /\ CauseText(last.fault) \in Range(last.resp.detail)

\* C9: when no request is in flight no connection is open.
ConnectionsReleased ==
    (\A p \in Workers : pc[p] = "idle") => openConns = 0

\* C10: a call of create_user_in_database reported as failed has committed
\* nothing, and one that returned an id has committed.
NoPartialSuccess ==
    (Reconciles(last.endpoint) /\ last.attempts > 0)
        => (last.committed <=> last.resp.status = 200)

====
